---- MODULE Spec2Model ----
(***************************************************************************)
(* myu: a model checker for labelled transition systems against the modal  *)
(* mu-calculus.  The module models the LTS store (src/src/lts.rs), the     *)
(* formula tree (src/src/mu_calculus.rs) and the two evaluators            *)
(* (src/src/naive.rs, src/src/improved.rs) with the global ITERATIONS      *)
(* counter of src/src/main.rs.                                             *)
(***************************************************************************)
EXTENDS Integers, Sequences, FiniteSets, TLC

(***************************************************************************)
(* Bounds of the model.                                                    *)
(***************************************************************************)
\* State identifiers of the generated transition systems are 0..MaxState.
MaxState == 1
\* Largest number of edge lines of a generated Aldebaran text.
MaxEdges == 3

States == 0 .. MaxState
Labels == {"a", "b"}

(***************************************************************************)
(* lts.rs: the LTS store.                                                  *)
(***************************************************************************)
\* Lts::default(): init 0, no states, no transitions.  trans is a HashMap:
\* a function whose DOMAIN is the set of keys <<state, label>> present.
LtsDefault == [init |-> 0, states |-> {}, trans |-> <<>>]

\* Lts::states
LtsStates(lts) == lts.states

\* Lts::init
LtsInit(lts) == lts.init

\* HashMap::get(&(s, step)).cloned().map(|ts| (s, ts)).unwrap_or((s, vec![]))
Targets(trans, s, step) ==
    IF <<s, step>> \in DOMAIN trans THEN trans[<<s, step>>] ELSE <<>>

\* Lts::add_edge
AddEdgeTrans(trans, start, label, end) ==
    LET key == <<start, label>>
    IN  [k \in DOMAIN trans \cup {key} |->
            IF k = key THEN Append(Targets(trans, start, label), end)
            ELSE trans[k]]

add_edge(lts, start, label, end) ==
    [lts EXCEPT !.states = (@ \cup {start}) \cup {end},
                !.trans  = AddEdgeTrans(@, start, label, end)]

\* The ascending iteration order of a BTreeSet<State>.
RECURSIVE Ascending(_)
Ascending(S) ==
    IF S = {} THEN <<>>
    ELSE LET m == CHOOSE x \in S : \A y \in S : x <= y
         IN  <<m>> \o Ascending(S \ {m})

\* step_transitions as it would be with the lookup as a filter: a state
\* without the key yields no pair.
step_transitions_present(lts, step) ==
    LET order == Ascending({s \in LtsStates(lts) :
                                <<s, step>> \in DOMAIN lts.trans})
    IN  [i \in 1 .. Len(order) |-> <<order[i], lts.trans[<<order[i], step>>]>>]

\* Lts::step_transitions: one pair (s, targets) per state, in set order.
step_transitions(lts, step) ==
    LET order == Ascending(LtsStates(lts))
    IN  [i \in 1 .. Len(order) |->
            <<order[i], Targets(lts.trans, order[i], step)>>]

\* Lts::from_str after the header has been read: the edges are added in the
\* order of the text.
RECURSIVE FromStrEdges(_, _)
FromStrEdges(lts, edges) ==
    IF edges = <<>> THEN lts
    ELSE FromStrEdges(add_edge(lts, edges[1][1], edges[1][2], edges[1][3]),
                      Tail(edges))

\* Lts::from_str: header (initial, n_transitions, n_states), then the edges.
FromStr(initial, edges) ==
    FromStrEdges([LtsDefault EXCEPT !.init = initial], edges)

(***************************************************************************)
(* mu_calculus.rs: formulas.                                               *)
(***************************************************************************)
False == [op |-> "False"]
True == [op |-> "True"]
Var(name) == [op |-> "Var", name |-> name]
And(f1, f2) == [op |-> "And", f1 |-> f1, f2 |-> f2]
Or(f1, f2) == [op |-> "Or", f1 |-> f1, f2 |-> f2]
Diamond(step, f) == [op |-> "Diamond", step |-> step, f |-> f]
Box(step, f) == [op |-> "Box", step |-> step, f |-> f]
Mu(var, f) == [op |-> "Mu", var |-> var, f |-> f]
Nu(var, f) == [op |-> "Nu", var |-> var, f |-> f]

\* Formula::is_mu, Formula::is_nu
is_mu(f) == f.op = "Mu"
is_nu(f) == f.op = "Nu"

\* Iterator::next of Subformulas, run to exhaustion: pop the last child,
\* push its operands, yield it.
RECURSIVE SubformulasNext(_)
SubformulasNext(children) ==
    IF children = <<>> THEN <<>>
    ELSE LET item == children[Len(children)]
             rest == SubSeq(children, 1, Len(children) - 1)
             pushed == CASE item.op \in {"And", "Or"} ->
                                rest \o <<item.f1, item.f2>>
                         [] item.op \in {"Box", "Diamond", "Mu", "Nu"} ->
                                Append(rest, item.f)
                         [] OTHER -> rest
         IN  <<item>> \o SubformulasNext(pushed)

\* Formula::subformulas
subformulas(f) == SubformulasNext(<<f>>)

\* Formula::variables
RECURSIVE variables(_)
variables(f) ==
    CASE f.op = "Var" -> [declared |-> {}, used |-> {f.name}]
      [] f.op \in {"And", "Or"} ->
            [declared |-> variables(f.f1).declared \cup variables(f.f2).declared,
             used |-> variables(f.f1).used \cup variables(f.f2).used]
      [] f.op \in {"Diamond", "Box"} -> variables(f.f)
      [] f.op \in {"Mu", "Nu"} ->
            [declared |-> variables(f.f).declared \cup {f.var},
             used |-> variables(f.f).used]
      [] OTHER -> [declared |-> {}, used |-> {}]

\* Formula::is_open
is_open(f) == ~(variables(f).used \subseteq variables(f).declared)

(***************************************************************************)
(* The state an evaluation threads through its recursive calls: the        *)
(* environment (HashMap<VarName, BTreeSet<State>>), the global counter     *)
(* ITERATIONS (main.rs), and how the call ended: "ok" (returned), "panic"  *)
(* (an index or unwrap on a missing key) or "hang" (a fixed-point loop     *)
(* came back to an environment it had already started an iteration from,   *)
(* so it never breaks).  bodies and longest are history fields: the number *)
(* of loop bodies executed, and the largest number of bodies one loop      *)
(* entry that started from the binder's initial value executed.            *)
(***************************************************************************)
NoEnv == <<>>

\* HashMap::insert
Insert(env, var, set) ==
    [v \in DOMAIN env \cup {var} |-> IF v = var THEN set ELSE env[v]]

StartState(env) ==
    [env |-> env, ITERATIONS |-> 0, status |-> "ok", bodies |-> 0, longest |-> 0]

Max(a, b) == IF a >= b THEN a ELSE b

Panic(st) == [val |-> {}, st |-> [st EXCEPT !.status = "panic"]]
Hang(st) == [val |-> {}, st |-> [st EXCEPT !.status = "hang"]]

\* The initial value as it would be with both arms starting from
\* BTreeSet::new().
InitialValueEmpty(lts, f) == {}

\* The value a loop of binder f starts from: BTreeSet::new() for Mu,
\* lts.states() for Nu.
InitialValue(lts, f) == IF is_mu(f) THEN {} ELSE LtsStates(lts)

(***************************************************************************)
(* naive.rs                                                                *)
(***************************************************************************)
\* The Diamond arm as it would be with the membership test negated.
NaiveDiamondNegated(lts, step, sat) ==
    {s \in LtsStates(lts) :
        LET ts == Targets(lts.trans, s, step)
        IN  \E i \in DOMAIN ts : ts[i] \notin sat}

\* The Box arm as it would be if it asked for a target: a state without
\* successors is left out.
NaiveBoxNonEmpty(lts, step, sat) ==
    {s \in LtsStates(lts) :
        LET ts == Targets(lts.trans, s, step)
        IN  ts # <<>> /\ \A i \in DOMAIN ts : ts[i] \in sat}

\* eval_inner, Diamond arm: the states with some target in sat.
NaiveDiamond(lts, step, sat) ==
    {s \in LtsStates(lts) :
        LET ts == Targets(lts.trans, s, step)
        IN  \E i \in DOMAIN ts : ts[i] \in sat}

\* eval_inner, Box arm: the states with every target in sat.
NaiveBox(lts, step, sat) ==
    {s \in LtsStates(lts) :
        LET ts == Targets(lts.trans, s, step)
        IN  \A i \in DOMAIN ts : ts[i] \in sat}

\* What the body of a naive fixed-point loop does to the counters: the
\* code has no ITERATIONS.fetch_add in either loop.
NaiveBody(st) == [st EXCEPT !.bodies = @ + 1]

RECURSIVE NaiveEvalInner(_, _, _)
RECURSIVE NaiveLoop(_, _, _, _, _)

\* The loop of the Mu and Nu arms; seen holds the environments earlier
\* iterations of this entry started from, n the bodies executed so far.
NaiveLoop(lts, f, st, seen, n) ==
    IF st.env \in seen THEN Hang(st)
    ELSE LET r == NaiveEvalInner(lts, f.f, NaiveBody(st))
         IN  IF r.st.status # "ok" THEN r
             ELSE IF f.var \notin DOMAIN r.st.env THEN Panic(r.st)
             ELSE LET prev == r.st.env[f.var]
                      st2 == [r.st EXCEPT !.env = Insert(@, f.var, r.val)]
                  IN  IF prev = r.val
                      THEN [val |-> prev,
                            st |-> [st2 EXCEPT !.longest = Max(@, n + 1)]]
                      ELSE NaiveLoop(lts, f, st2, seen \cup {st.env}, n + 1)

\* naive::eval_inner
NaiveEvalInner(lts, f, st) ==
    IF st.status # "ok" THEN [val |-> {}, st |-> st]
    ELSE CASE f.op = "Var" ->
                IF f.name \in DOMAIN st.env
                THEN [val |-> st.env[f.name], st |-> st]
                ELSE Panic(st)
           [] f.op = "True" -> [val |-> LtsStates(lts), st |-> st]
           [] f.op = "False" -> [val |-> {}, st |-> st]
           [] f.op = "And" ->
                LET r1 == NaiveEvalInner(lts, f.f1, st)
                    r2 == NaiveEvalInner(lts, f.f2, r1.st)
                IN  [val |-> r1.val \cap r2.val, st |-> r2.st]
           [] f.op = "Or" ->
                LET r1 == NaiveEvalInner(lts, f.f1, st)
                    r2 == NaiveEvalInner(lts, f.f2, r1.st)
                IN  [val |-> r1.val \cup r2.val, st |-> r2.st]
           [] f.op = "Diamond" ->
                LET r == NaiveEvalInner(lts, f.f, st)
                IN  [val |-> NaiveDiamond(lts, f.step, r.val), st |-> r.st]
           [] f.op = "Box" ->
                LET r == NaiveEvalInner(lts, f.f, st)
                IN  [val |-> NaiveBox(lts, f.step, r.val), st |-> r.st]
           [] f.op \in {"Mu", "Nu"} ->
                NaiveLoop(lts, f,
                          [st EXCEPT !.env = Insert(@, f.var, InitialValue(lts, f))],
                          {}, 0)

\* naive::eval
NaiveEval(lts, f) == NaiveEvalInner(lts, f, StartState(NoEnv))

(***************************************************************************)
(* improved.rs                                                             *)
(***************************************************************************)
\* prev_fixpoint: None
None == [op |-> "None"]

\* eval_inner, Diamond arm, over Lts::step_transitions.
ImprovedDiamond(lts, step, sat) ==
    LET ps == step_transitions(lts, step)
    IN  {ps[i][1] : i \in {j \in DOMAIN ps :
                            \E k \in DOMAIN ps[j][2] : ps[j][2][k] \in sat}}

\* eval_inner, Box arm, over Lts::step_transitions.
ImprovedBox(lts, step, sat) ==
    LET ps == step_transitions(lts, step)
    IN  {ps[i][1] : i \in {j \in DOMAIN ps :
                            \A k \in DOMAIN ps[j][2] : ps[j][2][k] \in sat}}

\* The closure of reset_fixpoints, applied to the subformulas gs in order.
RECURSIVE ResetEach(_, _, _, _)
ResetEach(lts, f, gs, env) ==
    IF gs = <<>> THEN env
    ELSE LET g == gs[1]
         IN  ResetEach(lts, f, Tail(gs),
                       IF g.op = f.op /\ is_open(g)
                       THEN Insert(env, g.var, InitialValue(lts, f))
                       ELSE env)

\* reset_fixpoints as it would be without the is_open guard: every binder
\* of f's polarity below f is reset.
reset_fixpoints_all(lts, f, env) ==
    LET gs == subformulas(f)
        R == {gs[i].var : i \in {j \in DOMAIN gs : gs[j].op = f.op}}
    IN  [v \in DOMAIN env \cup R |->
            IF v \in R THEN InitialValue(lts, f) ELSE env[v]]

\* reset_fixpoints, called on a Mu or Nu node f.
reset_fixpoints(lts, f, env) == ResetEach(lts, f, subformulas(f), env)

\* The seeding loop as it would be with the Nu arm missing.
RECURSIVE SeedMuOnly(_, _, _)
SeedMuOnly(lts, gs, env) ==
    IF gs = <<>> THEN env
    ELSE SeedMuOnly(lts, Tail(gs),
                    IF is_mu(gs[1]) THEN Insert(env, gs[1].var, {}) ELSE env)

\* The loop of improved::eval over f.subformulas(): seed every binder.
RECURSIVE Seed(_, _, _)
Seed(lts, gs, env) ==
    IF gs = <<>> THEN env
    ELSE LET g == gs[1]
         IN  Seed(lts, Tail(gs),
                  IF g.op \in {"Mu", "Nu"}
                  THEN Insert(env, g.var, InitialValue(lts, g))
                  ELSE env)

\* What the body of an improved fixed-point loop does to the counters:
\* super::ITERATIONS.fetch_add(1, Ordering::SeqCst).
ImprovedBody(st) == [st EXCEPT !.bodies = @ + 1, !.ITERATIONS = @ + 1]

\* The trigger as it would be if no binder were ever reset.
ResetTriggerNever(f, prev_fixpoint) == FALSE

\* The reset at the head of the Mu and Nu arms: when the innermost
\* enclosing fixed point has the other polarity.
ResetTrigger(f, prev_fixpoint) ==
    \/ is_mu(f) /\ is_nu(prev_fixpoint)
    \/ is_nu(f) /\ is_mu(prev_fixpoint)

\* The head of the Mu and Nu arms, before the loop: reset_fixpoints is
\* called when the trigger holds, and the environment is untouched otherwise.
BinderEntry(lts, f, prev_fixpoint, env) ==
    IF ResetTrigger(f, prev_fixpoint) THEN reset_fixpoints(lts, f, env)
    ELSE env

RECURSIVE ImprovedEvalInner(_, _, _, _)
RECURSIVE ImprovedLoop(_, _, _, _, _, _)

\* The loop of the Mu and Nu arms; fresh tells whether this entry started
\* from the binder's initial value.
ImprovedLoop(lts, f, st, seen, n, fresh) ==
    IF st.env \in seen THEN Hang(st)
    ELSE LET r == ImprovedEvalInner(lts, f.f, f, ImprovedBody(st))
         IN  IF r.st.status # "ok" THEN r
             ELSE IF f.var \notin DOMAIN r.st.env THEN Panic(r.st)
             ELSE LET prev == r.st.env[f.var]
                      st2 == [r.st EXCEPT !.env = Insert(@, f.var, r.val)]
                  IN  IF prev = r.val
                      THEN [val |-> prev,
                            st |-> IF fresh
                                   THEN [st2 EXCEPT !.longest = Max(@, n + 1)]
                                   ELSE st2]
                      ELSE ImprovedLoop(lts, f, st2, seen \cup {st.env},
                                        n + 1, fresh)

\* improved::eval_inner
ImprovedEvalInner(lts, f, prev_fixpoint, st) ==
    IF st.status # "ok" THEN [val |-> {}, st |-> st]
    ELSE CASE f.op = "Var" ->
                IF f.name \in DOMAIN st.env
                THEN [val |-> st.env[f.name], st |-> st]
                ELSE Panic(st)
           [] f.op = "True" -> [val |-> LtsStates(lts), st |-> st]
           [] f.op = "False" -> [val |-> {}, st |-> st]
           [] f.op = "And" ->
                LET r1 == ImprovedEvalInner(lts, f.f1, prev_fixpoint, st)
                    r2 == ImprovedEvalInner(lts, f.f2, prev_fixpoint, r1.st)
                IN  [val |-> r1.val \cap r2.val, st |-> r2.st]
           [] f.op = "Or" ->
                LET r1 == ImprovedEvalInner(lts, f.f1, prev_fixpoint, st)
                    r2 == ImprovedEvalInner(lts, f.f2, prev_fixpoint, r1.st)
                IN  [val |-> r1.val \cup r2.val, st |-> r2.st]
           [] f.op = "Diamond" ->
                LET r == ImprovedEvalInner(lts, f.f, prev_fixpoint, st)
                IN  [val |-> ImprovedDiamond(lts, f.step, r.val), st |-> r.st]
           [] f.op = "Box" ->
                LET r == ImprovedEvalInner(lts, f.f, prev_fixpoint, st)
                IN  [val |-> ImprovedBox(lts, f.step, r.val), st |-> r.st]
           [] f.op \in {"Mu", "Nu"} ->
                LET st1 == [st EXCEPT
                                !.env = BinderEntry(lts, f, prev_fixpoint, @)]
                IN  IF f.var \notin DOMAIN st1.env
                    THEN ImprovedLoop(lts, f, st1, {}, 0, FALSE)
                    ELSE ImprovedLoop(lts, f, st1, {}, 0,
                                      st1.env[f.var] = InitialValue(lts, f))

\* improved::eval
ImprovedEval(lts, f) ==
    ImprovedEvalInner(lts, f, None,
                      StartState(Seed(lts, subformulas(f), NoEnv)))

(***************************************************************************)
(* Inputs.                                                                 *)
(***************************************************************************)
\* The well-formed closed formulas: every Var occurs under a binder of its
\* name, and no binder rebinds a name bound by an enclosing binder.
RECURSIVE WellFormedUnder(_, _)
WellFormedUnder(f, bound) ==
    CASE f.op = "Var" -> f.name \in bound
      [] f.op \in {"And", "Or"} ->
            WellFormedUnder(f.f1, bound) /\ WellFormedUnder(f.f2, bound)
      [] f.op \in {"Diamond", "Box"} -> WellFormedUnder(f.f, bound)
      [] f.op \in {"Mu", "Nu"} ->
            f.var \notin bound /\ WellFormedUnder(f.f, bound \cup {f.var})
      [] OTHER -> TRUE

WellFormed(f) == WellFormedUnder(f, {})

\* Formula shapes the generated formulas are built from.
Bin(P, Q) ==
    {And(p, q) : p \in P, q \in Q} \cup {Or(p, q) : p \in P, q \in Q}
Fix(var, P) == {Mu(var, p) : p \in P} \cup {Nu(var, p) : p \in P}

\* One binder over a body without binders.
Bodies1 ==
    {Var("X"), Diamond("a", Var("X")), Box("a", Var("X")),
     Diamond("b", True), False}
Single == Fix("X", Bodies1)
\* Two binders side by side, both binding X.
Siblings == Bin(Single, Single)
\* The same inside the loop of an outer binder.
SiblingsInLoop ==
    LET P == {Nu("X", Var("X")), Mu("X", Var("X")), Mu("X", False),
              Nu("X", Diamond("a", Var("X")))}
    IN  {Mu("Y", Or(p, q)) : p \in P, q \in P}
            \cup {Nu("Y", And(p, q)) : p \in P, q \in P}
\* Two nested binders of either polarity.
Bodies2 ==
    {Var("X"), Var("Y"), Diamond("a", Var("X")), Diamond("a", Var("Y")),
     Box("a", Var("Y"))}
Nested == Fix("X", Fix("Y", Bin(Bodies2, Bodies2)))

Formulas == {f \in Single \cup Siblings \cup SiblingsInLoop \cup Nested :
                WellFormed(f)}

\* The transition systems from_str builds from a header with initial state
\* 0 and at most MaxEdges distinct edge lines.
AllEdges == States \X Labels \X States
EdgeSets == {E \in SUBSET AllEdges : Cardinality(E) <= MaxEdges}

RECURSIVE Lines(_)
Lines(E) ==
    IF E = {} THEN <<>>
    ELSE LET e == CHOOSE x \in E : TRUE IN <<e>> \o Lines(E \ {e})

(***************************************************************************)
(* tests.rs: the fixed transition system and the battery of formulas with  *)
(* the expected membership of state 0.                                     *)
(***************************************************************************)
L0Edges ==
    << <<0, "tau", 1>>, <<0, "tau", 2>>, <<1, "tau", 3>>, <<1, "tau", 4>>,
       <<2, "tau", 5>>, <<2, "tau", 4>>, <<3, "b", 0>>, <<3, "a", 6>>,
       <<4, "tau", 7>>, <<4, "tau", 6>>, <<5, "a", 0>>, <<5, "a", 7>>,
       <<6, "tau", 2>>, <<7, "b", 1>> >>

L0 == FromStr(0, L0Edges)

Case(f, expected) == [f |-> f, expected |-> expected]

BatteryBoolean ==
    {Case(False, FALSE), Case(True, TRUE),
     Case(And(False, True), FALSE), Case(And(True, False), FALSE),
     Case(And(True, True), TRUE), Case(Or(False, True), TRUE),
     Case(Or(False, False), FALSE), Case(Or(True, False), TRUE),
     Case(Or(True, True), TRUE)}

BatteryModal ==
    {Case(Box("tau", True), TRUE),
     Case(Diamond("tau", Box("tau", True)), TRUE),
     Case(Box("tau", False), FALSE),
     Case(Diamond("tau", Box("tau", False)), FALSE),
     Case(Diamond("tau", False), FALSE)}

BatteryFixpoints ==
    {Case(Nu("X", Var("X")), TRUE),
     Case(Mu("Y", Var("Y")), FALSE),
     Case(Nu("X", Mu("Y", Or(Var("X"), Var("Y")))), TRUE),
     Case(Nu("X", Mu("Y", And(Var("X"), Var("Y")))), FALSE),
     Case(Nu("X", And(Var("X"), Mu("Y", Var("Y")))), FALSE)}

BatteryCombined ==
    {Case(Nu("X", And(Diamond("tau", Var("X")),
                      Mu("Y", Or(Diamond("tau", Var("Y")),
                                 Box("a", False))))), TRUE),
     Case(Nu("X", Diamond("tau", Var("X"))), TRUE),
     Case(Nu("X", Mu("Y", Or(Diamond("tau", Var("Y")),
                             Diamond("a", Var("X"))))), TRUE),
     Case(Nu("X", Mu("Y", Or(Or(Diamond("tau", Var("Y")),
                                Diamond("a", Var("Y"))),
                             Diamond("b", Var("X"))))), TRUE),
     Case(Mu("X", And(Box("tau", Var("X")),
                      Or(Diamond("tau", True), Diamond("a", True)))), FALSE)}

Battery ==
    BatteryBoolean \cup BatteryModal \cup BatteryFixpoints \cup BatteryCombined

\* check_formula's expected value for a formula of the battery.
Expected(f) == (CHOOSE c \in Battery : c.f = f).expected

(***************************************************************************)
(* State.                                                                  *)
(***************************************************************************)
VARIABLES
    pc,        \* where the program is: "header", "edges", "parsed", ...
    lts,       \* the Lts value
    mcf,       \* the formula
    env,       \* the environment eval_inner is called with
    naive,     \* outcome of the run with --naive
    improved,  \* outcome of the run without --naive
    ret,       \* what the last call on the store or evaluator returned
    files      \* the two files named on the command line

vars == <<pc, lts, mcf, env, naive, improved, ret, files>>

NotRun ==
    [status |-> "none", val |-> {}, ITERATIONS |-> 0, bodies |-> 0,
     longest |-> 0]

\* What run() has in hand once the evaluator is through: the set and the
\* counter it prints.
Outcome(r) ==
    [status |-> r.st.status, val |-> r.val,
     ITERATIONS |-> r.st.ITERATIONS, bodies |-> r.st.bodies,
     longest |-> r.st.longest]

NoRet == [call |-> "none"]

\* The files are read before anything else: nothing is left to read.
NoFiles == [lts |-> [state |-> "read"], mcf |-> [state |-> "read"]]

(***************************************************************************)
(* Spec: run() on a parsed LTS and formula, once with each evaluator.      *)
(***************************************************************************)
Init ==
    /\ pc = "parsed"
    /\ \/ /\ \E E \in EdgeSets : lts = FromStr(0, Lines(E))
          /\ mcf \in Formulas
       \/ /\ lts = L0
          /\ mcf \in {c.f : c \in Battery}
    /\ env = NoEnv
    /\ naive = NotRun
    /\ improved = NotRun
    /\ ret = NoRet
    /\ files = NoFiles

\* main.rs run(), args.naive: naive::eval(&lts, &mcf)
NaiveRun ==
    /\ pc = "parsed"
    /\ naive = NotRun
    /\ naive' = Outcome(NaiveEval(lts, mcf))
    /\ UNCHANGED <<files, pc, lts, mcf, env, improved, ret>>

\* main.rs run(), otherwise: improved::eval(&lts, &mcf)
ImprovedRun ==
    /\ pc = "parsed"
    /\ improved = NotRun
    /\ improved' = Outcome(ImprovedEval(lts, mcf))
    /\ UNCHANGED <<files, pc, lts, mcf, env, naive, ret>>

Next == NaiveRun \/ ImprovedRun

Spec == Init /\ [][Next]_vars

(***************************************************************************)
(* SpecLts: Lts::from_str reading an Aldebaran text line by line, then the *)
(* store and the modal arms of the evaluators used on the parsed value.    *)
(***************************************************************************)
RECURSIVE NumEdgesOver(_, _)
NumEdgesOver(trans, keys) ==
    IF keys = {} THEN 0
    ELSE LET k == CHOOSE x \in keys : TRUE
         IN  Len(trans[k]) + NumEdgesOver(trans, keys \ {k})

\* The number of edge lines read so far.
NumEdges(l) == NumEdgesOver(l.trans, DOMAIN l.trans)

InitLts ==
    /\ pc = "header"
    /\ lts = LtsDefault
    /\ mcf = True
    /\ env = NoEnv
    /\ naive = NotRun
    /\ improved = NotRun
    /\ ret = NoRet
    /\ files = NoFiles

\* from_str: aut_header parsed, lts.init = initial.
ParseHeader(initial) ==
    /\ pc = "header"
    /\ lts' = [lts EXCEPT !.init = initial]
    /\ pc' = "edges"
    /\ UNCHANGED <<files, mcf, env, naive, improved, ret>>

\* from_str: one turn of the while loop that reads an edge line.
AddEdge(start, label, end) ==
    /\ pc = "edges"
    /\ NumEdges(lts) < MaxEdges
    /\ lts' = add_edge(lts, start, label, end)
    /\ UNCHANGED <<files, pc, mcf, env, naive, improved, ret>>

\* from_str: a line that is no edge, the error is returned.
EdgeError ==
    /\ pc = "edges"
    /\ pc' = "failed"
    /\ UNCHANGED <<files, lts, mcf, env, naive, improved, ret>>

\* from_str: end of input, Ok(lts).
ParseEof ==
    /\ pc = "edges"
    /\ pc' = "parsed"
    /\ UNCHANGED <<files, lts, mcf, env, naive, improved, ret>>

\* A call of Lts::step_transitions(step), collected.  One call on each
\* parsed value is observed.
StepTransitions(step) ==
    /\ pc = "parsed"
    /\ ret = NoRet
    /\ ret' = [call |-> "step_transitions", step |-> step,
               pairs |-> step_transitions(lts, step)]
    /\ UNCHANGED <<files, pc, lts, mcf, env, naive, improved>>

\* The Box arm on a body that evaluates to sat and the Diamond arm on a
\* body that evaluates to the complement of sat, in both evaluators.
ModalArms(step, sat) ==
    /\ pc = "parsed"
    /\ ret = NoRet
    /\ ret' =
        LET on == StartState("X" :> sat)
            off == StartState("X" :> (LtsStates(lts) \ sat))
        IN  [call |-> "modal", step |-> step, sat |-> sat,
             naiveBox |-> NaiveEvalInner(lts, Box(step, Var("X")), on).val,
             naiveDiamond |->
                NaiveEvalInner(lts, Diamond(step, Var("X")), off).val,
             improvedBox |->
                ImprovedEvalInner(lts, Box(step, Var("X")), None, on).val,
             improvedDiamond |->
                ImprovedEvalInner(lts, Diamond(step, Var("X")), None, off).val]
    /\ UNCHANGED <<files, pc, lts, mcf, env, naive, improved>>

NextLts ==
    \/ \E initial \in States : ParseHeader(initial)
    \/ \E start \in States, label \in Labels, end \in States :
            AddEdge(start, label, end)
    \/ EdgeError
    \/ ParseEof
    \/ \E step \in Labels : StepTransitions(step)
    \/ /\ ret = NoRet
       /\ \E step \in Labels, sat \in SUBSET LtsStates(lts) :
            ModalArms(step, sat)

SpecLts == InitLts /\ [][NextLts]_vars

\* The states with no step-successor stored.
Deadlocked(l, step) ==
    {s \in LtsStates(l) : <<s, step>> \notin DOMAIN l.trans}

\* C8: the Box arm on T yields S minus what the Diamond arm yields on
\* S \ T, and a state with no step-successor is in the Box result and not
\* in the Diamond result, in both evaluators.
C8_Duality ==
    ret.call = "modal" =>
        LET S == LtsStates(lts)
        IN  /\ ret.naiveBox = S \ ret.naiveDiamond
            /\ ret.improvedBox = S \ ret.improvedDiamond
            /\ \A s \in Deadlocked(lts, ret.step) :
                    /\ s \in ret.naiveBox /\ s \notin ret.naiveDiamond
                    /\ s \in ret.improvedBox /\ s \notin ret.improvedDiamond

\* Witness of C8: the arms were applied to a set that is neither empty nor
\* all of S, on a system with a deadlocked state and a state whose
\* successors are split by the set.
C8_Witness ==
    /\ ret.call = "modal"
    /\ ret.sat # {} /\ ret.sat # LtsStates(lts)
    /\ Deadlocked(lts, ret.step) # {}
    /\ ret.naiveBox # LtsStates(lts)
    /\ ret.naiveDiamond # {}

\* C9: in a parsed Lts the initial state is a member of states(), and so
\* is every source and target of a transition.
C9_StatesClosed ==
    pc = "parsed" =>
        /\ LtsInit(lts) \in LtsStates(lts)
        /\ \A k \in DOMAIN lts.trans :
                /\ k[1] \in LtsStates(lts)
                /\ \A i \in DOMAIN lts.trans[k] :
                        lts.trans[k][i] \in LtsStates(lts)

\* C10: step_transitions(a) yields one pair (s, Ts) for each state s and
\* no other pair, Ts being the stored target sequence of (s, a), or the
\* empty sequence when the key is absent.
C10_OnePairPerState ==
    ret.call = "step_transitions" =>
        LET ps == ret.pairs
        IN  /\ \A s \in LtsStates(lts) :
                    Cardinality({i \in DOMAIN ps : ps[i][1] = s}) = 1
            /\ \A i \in DOMAIN ps :
                    /\ ps[i][1] \in LtsStates(lts)
                    /\ ps[i][2] =
                        IF <<ps[i][1], ret.step>> \in DOMAIN lts.trans
                        THEN lts.trans[<<ps[i][1], ret.step>>]
                        ELSE <<>>

\* Witness of C10: it was called on a system where one state has the step
\* stored, with two targets, and another has not.
C10_Witness ==
    /\ ret.call = "step_transitions"
    /\ \E i, j \in DOMAIN ret.pairs :
            Len(ret.pairs[i][2]) = 2 /\ ret.pairs[j][2] = <<>>

(***************************************************************************)
(* SpecNaive: naive::eval_inner called on a formula under an environment   *)
(* that binds its free variables, and on the body of a binder under two    *)
(* environments.                                                           *)
(***************************************************************************)
\* The transition systems over the single label "a".
EdgeSetsA == {E \in EdgeSets : \A e \in E : e[2] = "a"}

\* Bodies of a binder of X, without inner binders.
BodiesA ==
    {Var("X"), Diamond("a", Var("X")), Box("a", Var("X")), Box("a", False),
     Diamond("a", True)}
FlatBodies ==
    BodiesA \cup
    Bin({Var("X"), Diamond("a", Var("X")), Box("a", Var("X"))}, BodiesA)
\* Bodies that hold a binder of Y whose body reads X.
LoopBodies ==
    Fix("Y", Bin({Var("X"), Diamond("a", Var("X"))},
                 {Var("Y"), Diamond("a", Var("Y")), Box("a", Var("Y"))}))
\* Binders of X with Y free.
OpenBinders ==
    {Mu("X", Or(Var("Y"), Diamond("a", Var("X")))),
     Nu("X", And(Diamond("a", Var("Y")), Box("a", Var("X"))))}

Binders == Fix("X", FlatBodies \cup LoopBodies) \cup OpenBinders

\* The free variables of f.
RECURSIVE Free(_)
Free(f) ==
    CASE f.op = "Var" -> {f.name}
      [] f.op \in {"And", "Or"} -> Free(f.f1) \cup Free(f.f2)
      [] f.op \in {"Diamond", "Box"} -> Free(f.f)
      [] f.op \in {"Mu", "Nu"} -> Free(f.f) \ {f.var}
      [] OTHER -> {}

\* The environments that bind exactly the names V to subsets of S.
Envs(V, S) == [V -> SUBSET S]

Below(rho1, rho2) == \A v \in DOMAIN rho1 : rho1[v] \subseteq rho2[v]

InitNaive ==
    /\ pc = "parsed"
    /\ \/ /\ \E E \in EdgeSetsA : lts = FromStr(0, Lines(E))
          /\ mcf \in Binders
       \/ /\ lts = L0
          /\ mcf \in {c.f : c \in Battery}
    /\ env = NoEnv
    /\ naive = NotRun
    /\ improved = NotRun
    /\ ret = NoRet
    /\ files = NoFiles

\* eval_inner(lts, mcf, rho)
EvalFormula(rho) ==
    /\ pc = "parsed"
    /\ ret = NoRet
    /\ env' = rho
    /\ ret' =
        LET r == NaiveEvalInner(lts, mcf, StartState(rho))
        IN  [call |-> "eval", status |-> r.st.status, val |-> r.val]
    /\ UNCHANGED <<files, pc, lts, mcf, naive, improved>>

\* eval_inner(lts, g, rho1) and eval_inner(lts, g, rho2) on the body g of
\* the binder mcf, rho1 below rho2.  The pairs of environments are
\* enumerated on the generated systems only.
EvalBody(rho1, rho2) ==
    /\ pc = "parsed"
    /\ ret = NoRet
    /\ mcf.op \in {"Mu", "Nu"}
    /\ Below(rho1, rho2)
    /\ env' = rho1
    /\ ret' =
        LET r1 == NaiveEvalInner(lts, mcf.f, StartState(rho1))
            r2 == NaiveEvalInner(lts, mcf.f, StartState(rho2))
        IN  [call |-> "body", above |-> rho2,
             status1 |-> r1.st.status, val1 |-> r1.val,
             status2 |-> r2.st.status, val2 |-> r2.val]
    /\ UNCHANGED <<files, pc, lts, mcf, naive, improved>>

NextNaive ==
    \/ /\ ret = NoRet
       /\ \E rho \in Envs(Free(mcf), LtsStates(lts)) : EvalFormula(rho)
    \/ /\ ret = NoRet
       /\ mcf.op \in {"Mu", "Nu"}
       /\ LtsStates(lts) \subseteq States
       /\ \E rho1, rho2 \in Envs(Free(mcf.f), LtsStates(lts)) :
            EvalBody(rho1, rho2)

SpecNaive == InitNaive /\ [][NextNaive]_vars

\* The semantics of the spec: the t with s -step-> t, and the sets of states that
\* satisfy a formula, a least fixed point being the fixed point that lies
\* in every fixed point and a greatest the one every fixed point lies in.
Arrow(l, s, step) ==
    IF <<s, step>> \in DOMAIN l.trans
    THEN {l.trans[<<s, step>>][i] : i \in DOMAIN l.trans[<<s, step>>]}
    ELSE {}

RECURSIVE Sem(_, _, _)
Sem(l, f, rho) ==
    LET S == LtsStates(l)
    IN  CASE f.op = "True" -> S
          [] f.op = "False" -> {}
          [] f.op = "Var" -> rho[f.name]
          [] f.op = "And" -> Sem(l, f.f1, rho) \cap Sem(l, f.f2, rho)
          [] f.op = "Or" -> Sem(l, f.f1, rho) \cup Sem(l, f.f2, rho)
          [] f.op = "Diamond" ->
                LET sat == Sem(l, f.f, rho)
                IN  {s \in S : \E t \in Arrow(l, s, f.step) : t \in sat}
          [] f.op = "Box" ->
                LET sat == Sem(l, f.f, rho)
                IN  {s \in S : \A t \in Arrow(l, s, f.step) : t \in sat}
          [] f.op \in {"Mu", "Nu"} ->
                LET fixed == {T \in SUBSET S :
                                Sem(l, f.f, Insert(rho, f.var, T)) = T}
                IN  IF f.op = "Mu"
                    THEN CHOOSE T \in fixed : \A U \in fixed : T \subseteq U
                    ELSE CHOOSE T \in fixed : \A U \in fixed : U \subseteq T

\* C3: the naive evaluator returns for a binder the least (Mu) or greatest
\* (Nu) fixed point of its body under the given environment, and state 0
\* of the test system is in the result exactly when the battery expects it.
C3_NaiveIsFixpoint ==
    ret.call = "eval" =>
        /\ ret.status = "ok"
        /\ ret.val = Sem(lts, mcf, env)
        /\ lts = L0 => ((0 \in ret.val) <=> Expected(mcf))

\* Witness of C3: a binder whose body holds another binder was evaluated
\* to a set that is neither empty nor all of S.
C3_Witness ==
    /\ ret.call = "eval"
    /\ mcf.op \in {"Mu", "Nu"}
    /\ mcf.f.op \in {"Mu", "Nu"}
    /\ ret.val # {} /\ ret.val # LtsStates(lts)

\* C7: the set eval_inner computes for the body of a binder under rho1 is
\* a subset of the set it computes under rho2 when rho1 is below rho2.
C7_Monotone ==
    ret.call = "body" =>
        /\ ret.status1 = "ok" /\ ret.status2 = "ok"
        /\ ret.val1 \subseteq ret.val2

\* Witness of C7: a body that holds a binder, evaluated under two
\* different environments to two different sets.
C7_Witness ==
    /\ ret.call = "body"
    /\ mcf.f.op \in {"Mu", "Nu"}
    /\ env # ret.above
    /\ ret.val1 # ret.val2

(***************************************************************************)
(* Properties of the two evaluators on the same input.                     *)
(***************************************************************************)
Returned(run) == run.status = "ok"
Started(run) == run.status # "none"

\* C1: on a well-formed closed formula the naive and the improved
\* evaluator return the same set of states.
C1_SameSet ==
    (Returned(naive) /\ Returned(improved)) => naive.val = improved.val

\* C2: on a well-formed closed formula each evaluator returns: every
\* fixed-point loop breaks and nothing panics.
C2_Terminates ==
    /\ Started(naive) => Returned(naive)
    /\ Started(improved) => Returned(improved)

\* C4: in both evaluators every execution of a fixed-point loop body adds
\* one to ITERATIONS, so a returned evaluation has counted its loop bodies.
C4_CountsBodies ==
    /\ Returned(naive) => naive.ITERATIONS = naive.bodies
    /\ Returned(improved) => improved.ITERATIONS = improved.bodies

\* C5: the iteration count reported after the improved evaluator is at most
\* the one reported after the naive evaluator on the same input.
C5_ImprovedAtMostNaive ==
    (Returned(naive) /\ Returned(improved)) =>
        improved.ITERATIONS <= naive.ITERATIONS

\* C6: a loop entered at the binder's initial value executes its body at
\* most |S| + 1 times before it breaks, in either evaluator.
C6_EntryBound ==
    /\ Returned(naive) => naive.longest <= Cardinality(LtsStates(lts)) + 1
    /\ Returned(improved) =>
            improved.longest <= Cardinality(LtsStates(lts)) + 1

(***************************************************************************)
(* SpecImproved: improved::eval in its two steps, the seeding loop and the *)
(* descent, and the head of a binder arm of eval_inner (the reset) called  *)
(* on the binders of the formula under the environments over its names.    *)
(***************************************************************************)
\* Three nested binders X, Y, Z; the innermost is closed or reads X or Y.
Deep ==
    Fix("X", Fix("Y",
        Bin({Var("X"), Diamond("a", Var("Y"))},
            Fix("Z", {Var("Z"), Box("a", Var("Z")),
                      Or(Var("Z"), Diamond("a", Var("X"))),
                      And(Var("Z"), Var("Y"))}))))

ImprovedInputs == Formulas \cup Deep

\* The nodes of f, as a set of formulas.
RECURSIVE Sub(_)
Sub(f) ==
    {f} \cup
    CASE f.op \in {"And", "Or"} -> Sub(f.f1) \cup Sub(f.f2)
      [] f.op \in {"Diamond", "Box", "Mu", "Nu"} -> Sub(f.f)
      [] OTHER -> {}

BinderNodes(f) == {h \in Sub(f) : h.op \in {"Mu", "Nu"}}

\* The calls eval_inner(h, prev_fixpoint) made on binders h while f is
\* evaluated under prev: prev_fixpoint is the innermost enclosing binder.
RECURSIVE BinderCalls(_, _)
BinderCalls(f, prev) ==
    CASE f.op \in {"And", "Or"} ->
            BinderCalls(f.f1, prev) \cup BinderCalls(f.f2, prev)
      [] f.op \in {"Diamond", "Box"} -> BinderCalls(f.f, prev)
      [] f.op \in {"Mu", "Nu"} ->
            {[f |-> f, prev_fixpoint |-> prev]} \cup BinderCalls(f.f, f)
      [] OTHER -> {}

\* The names bound somewhere in f.
BoundNames(f) == {h.var : h \in BinderNodes(f)}

InitImproved ==
    /\ pc = "parsed"
    /\ \E E \in EdgeSetsA : lts = FromStr(0, Lines(E))
    /\ mcf \in ImprovedInputs
    /\ env = NoEnv
    /\ naive = NotRun
    /\ improved = NotRun
    /\ ret = NoRet
    /\ files = NoFiles

\* improved::eval, the loop over f.subformulas() that fills env.
SeedEnv ==
    /\ pc = "parsed"
    /\ ret = NoRet
    /\ env' = Seed(lts, subformulas(mcf), NoEnv)
    /\ pc' = "seeded"
    /\ UNCHANGED <<files, lts, mcf, naive, improved, ret>>

\* improved::eval, the call eval_inner(lts, f, None, &mut env).
Descend ==
    /\ pc = "seeded"
    /\ improved' = Outcome(ImprovedEvalInner(lts, mcf, None, StartState(env)))
    /\ pc' = "done"
    /\ UNCHANGED <<files, lts, mcf, env, naive, ret>>

\* reset_fixpoints(lts, h, rho) on a binder h of the formula.
ResetFixpoints(h, rho) ==
    /\ pc = "parsed"
    /\ ret = NoRet
    /\ env' = rho
    /\ ret' = [call |-> "reset", f |-> h, prev_fixpoint |-> None,
               after |-> reset_fixpoints(lts, h, rho)]
    /\ UNCHANGED <<files, pc, lts, mcf, naive, improved>>

\* The head of the binder arm of eval_inner(lts, h, prev_fixpoint, rho), up
\* to the loop.
EnterBinder(call, rho) ==
    /\ pc = "parsed"
    /\ ret = NoRet
    /\ env' = rho
    /\ ret' = [call |-> "enter", f |-> call.f,
               prev_fixpoint |-> call.prev_fixpoint,
               after |-> BinderEntry(lts, call.f, call.prev_fixpoint, rho)]
    /\ UNCHANGED <<files, pc, lts, mcf, naive, improved>>

NextImproved ==
    \/ SeedEnv
    \/ Descend
    \/ /\ ret = NoRet /\ pc = "parsed"
       /\ \E h \in BinderNodes(mcf),
             rho \in Envs(BoundNames(mcf), LtsStates(lts)) :
                ResetFixpoints(h, rho)
    \/ /\ ret = NoRet /\ pc = "parsed"
       /\ \E call \in BinderCalls(mcf, None),
             rho \in Envs(BoundNames(mcf), LtsStates(lts)) :
                EnterBinder(call, rho)

SpecImproved == InitImproved /\ [][NextImproved]_vars

\* C11: when the descent of improved::eval starts, the environment maps the
\* variable of every Mu binder of the formula to the empty set and the
\* variable of every Nu binder to the full state set.
C11_PreSeeded ==
    pc = "seeded" =>
        \A h \in BinderNodes(mcf) :
            /\ h.var \in DOMAIN env
            /\ env[h.var] = IF h.op = "Mu" THEN {} ELSE LtsStates(lts)

\* The names occurring in Var nodes of h, and h being open: some name used
\* in h is bound nowhere in h.
UsedNames(h) == {g.name : g \in {x \in Sub(h) : x.op = "Var"}}
Open(h) == ~(UsedNames(h) \subseteq BoundNames(h))

\* The names reset_open(f, rho) writes: those of the open binders of f's
\* polarity among the nodes of f.
ResetNames(f) == {h.var : h \in {x \in Sub(f) : x.op = f.op /\ Open(x)}}

\* rho with the names of ResetNames(f) set to the empty set (f a Mu
\* binder) or to all states (f a Nu binder), every other binding kept.
ResetOpen(l, f, rho) ==
    [v \in DOMAIN rho \cup ResetNames(f) |->
        IF v \in ResetNames(f)
        THEN (IF f.op = "Mu" THEN {} ELSE LtsStates(l))
        ELSE rho[v]]

Opposite(f, prev) ==
    \/ f.op = "Mu" /\ prev.op = "Nu"
    \/ f.op = "Nu" /\ prev.op = "Mu"

\* C15: reset_fixpoints on a binder f sets the variable of every open
\* binder of f's polarity below f (f included) to the empty set (Mu) or to
\* S (Nu) and keeps every other binding; eval_inner does so on entry to a
\* binder exactly when the innermost enclosing binder has the other
\* polarity, and leaves the environment as it is before the first iteration
\* otherwise.
C15_ResetFrame ==
    /\ ret.call = "reset" => ret.after = ResetOpen(lts, ret.f, env)
    /\ ret.call = "enter" =>
            ret.after = IF Opposite(ret.f, ret.prev_fixpoint)
                        THEN ResetOpen(lts, ret.f, env)
                        ELSE env

\* Witness of C15: a binder entered below a binder of the other polarity,
\* where the reset changed the binding of an open binder and kept the
\* binding, not the initial value, of a closed binder of the same polarity.
C15_Witness ==
    /\ ret.call = "enter"
    /\ Opposite(ret.f, ret.prev_fixpoint)
    /\ ret.after # env
    /\ \E h \in BinderNodes(ret.f) :
            /\ h.op = ret.f.op
            /\ ~Open(h)
            /\ h.var \notin ResetNames(ret.f)
            /\ ret.after[h.var] = env[h.var]
            /\ env[h.var] # (IF h.op = "Mu" THEN {} ELSE LtsStates(lts))

(***************************************************************************)
(* mu_calculus.rs: the three depth measures and the Subformulas iterator   *)
(* taken one next() at a time.  A reference &Formula held by the iterator  *)
(* is the path of the node from the root: 1 for f1 or f, 2 for f2.         *)
(***************************************************************************)
\* u16 arithmetic wraps at 2^16.
U16 == 65536

\* Iterator::max().unwrap_or(0) over the values ns.
MaxOrZero(ns) == IF ns = {} THEN 0 ELSE CHOOSE n \in ns : \A m \in ns : m <= n

\* nesting_depth as it would be with the binder arm not counting itself.
RECURSIVE nesting_depth_flat(_)
nesting_depth_flat(f) ==
    CASE f.op \in {"Box", "Diamond", "Mu", "Nu"} -> nesting_depth_flat(f.f)
      [] f.op \in {"And", "Or"} ->
            Max(nesting_depth_flat(f.f1), nesting_depth_flat(f.f2))
      [] OTHER -> 0

\* Formula::nesting_depth
RECURSIVE nesting_depth(_)
nesting_depth(f) ==
    CASE f.op \in {"True", "False", "Var"} -> 0
      [] f.op \in {"Box", "Diamond"} -> nesting_depth(f.f)
      [] f.op \in {"And", "Or"} ->
            Max(nesting_depth(f.f1), nesting_depth(f.f2))
      [] f.op \in {"Mu", "Nu"} -> (1 + nesting_depth(f.f)) % U16

\* Formula::alternation_depth
RECURSIVE alternation_depth(_)
alternation_depth(f) ==
    CASE f.op \in {"True", "False", "Var"} -> 0
      [] f.op \in {"Box", "Diamond"} -> alternation_depth(f.f)
      [] f.op \in {"And", "Or"} ->
            Max(alternation_depth(f.f1), alternation_depth(f.f2))
      [] f.op \in {"Mu", "Nu"} ->
            LET gs == subformulas(f.f)
                other == {j \in DOMAIN gs :
                            IF is_mu(f) THEN is_nu(gs[j]) ELSE is_mu(gs[j])}
            IN  Max(Max(1, alternation_depth(f.f)),
                    (1 + MaxOrZero({alternation_depth(gs[j]) : j \in other}))
                        % U16)

\* Formula::dependent_ad
RECURSIVE dependent_ad(_)
dependent_ad(f) ==
    CASE f.op \in {"True", "False", "Var"} -> 0
      [] f.op \in {"Box", "Diamond"} -> dependent_ad(f.f)
      [] f.op \in {"And", "Or"} ->
            Max(dependent_ad(f.f1), dependent_ad(f.f2))
      [] f.op \in {"Mu", "Nu"} ->
            LET gs == subformulas(f.f)
                other == {j \in DOMAIN gs :
                            /\ IF is_mu(f) THEN is_nu(gs[j]) ELSE is_mu(gs[j])
                            /\ f.var \in variables(gs[j]).used}
            IN  Max(Max(1, dependent_ad(f.f)),
                    (1 + MaxOrZero({dependent_ad(gs[j]) : j \in other})) % U16)

\* The node of f a path refers to.
RECURSIVE At(_, _)
At(f, path) ==
    IF path = <<>> THEN f
    ELSE At(IF Head(path) = 2 THEN f.f2
            ELSE IF f.op \in {"And", "Or"} THEN f.f1 ELSE f.f,
            Tail(path))

\* next() as it would be if it pushed only the first operand of And / Or.
OperandsFirstOnly(f, path) ==
    IF At(f, path).op \in {"True", "False", "Var"} THEN <<>>
    ELSE <<Append(path, 1)>>

\* Iterator::next, the match on the popped item: the references pushed.
Operands(f, path) ==
    CASE At(f, path).op \in {"And", "Or"} ->
            <<Append(path, 1), Append(path, 2)>>
      [] At(f, path).op \in {"Box", "Diamond", "Mu", "Nu"} ->
            <<Append(path, 1)>>
      [] OTHER -> <<>>

\* The formulas over True, False, X, Y and the label a, by height.
Level0 == {True, False, Var("X"), Var("Y")}
Grow(P) ==
    Level0 \cup {Diamond("a", p) : p \in P} \cup {Box("a", p) : p \in P}
        \cup Bin(P, P) \cup Fix("X", P) \cup Fix("Y", P)
Level1 == Grow(Level0)
Level2 == Grow(Level1)

\* The two formulas of the test depth_measures.
DepthTests ==
    LET left == Mu("X", Nu("Y", Or(Var("X"), Var("Y"))))
        last == Mu("Z", Or(True, Var("Z")))
    IN  {And(left, Mu("V", Mu("W", And(Var("V"), last)))),
         And(left, Mu("V", Nu("W", And(Var("V"), last))))}

\* Three binders one inside the other, in every mix of polarities.
Chains == Fix("X", Fix("Y", Fix("Z",
            {Var("Z"), Or(Var("X"), Var("Z")), And(Var("Y"), Var("Z"))})))

AnyFormula == Level2 \cup DepthTests \cup Chains \cup Deep

NoItem == [none |-> TRUE]

InitFormula ==
    /\ pc = "parsed"
    /\ lts = LtsDefault
    /\ mcf \in AnyFormula
    /\ env = NoEnv
    /\ naive = NotRun
    /\ improved = NotRun
    /\ ret = NoRet
    /\ files = NoFiles

\* Formula::subformulas: the iterator holds the root.
NewSubformulas ==
    /\ pc = "parsed"
    /\ ret = NoRet
    /\ ret' = [call |-> "subformulas", children |-> << <<>> >>,
               item |-> NoItem, yielded |-> <<>>, ended |-> FALSE]
    /\ UNCHANGED <<files, pc, lts, mcf, env, naive, improved>>

\* Iterator::next: pop the last reference, push its operands, return it;
\* None when nothing is left.  yielded is the history of the items returned.
IteratorNext ==
    /\ ret.call \in {"subformulas", "next"}
    /\ ~ret.ended
    /\ ret' =
        IF ret.children = <<>>
        THEN [ret EXCEPT !.call = "next", !.item = NoItem, !.ended = TRUE]
        ELSE LET item == ret.children[Len(ret.children)]
                 rest == SubSeq(ret.children, 1, Len(ret.children) - 1)
             IN  [ret EXCEPT !.call = "next",
                             !.children = rest \o Operands(mcf, item),
                             !.item = item,
                             !.yielded = Append(@, item)]
    /\ UNCHANGED <<files, pc, lts, mcf, env, naive, improved>>

\* run(): the three measures printed for the formula.
DepthMeasures ==
    /\ pc = "parsed"
    /\ ret = NoRet
    /\ ret' = [call |-> "depth", nd |-> nesting_depth(mcf),
               ad |-> alternation_depth(mcf), dad |-> dependent_ad(mcf)]
    /\ UNCHANGED <<files, pc, lts, mcf, env, naive, improved>>

NextFormula == NewSubformulas \/ IteratorNext \/ DepthMeasures

SpecFormula == InitFormula /\ [][NextFormula]_vars

\* The paths of the nodes of f.
RECURSIVE Paths(_)
Paths(f) ==
    {<<>>} \cup
    CASE f.op \in {"And", "Or"} ->
            {<<1>> \o p : p \in Paths(f.f1)} \cup
            {<<2>> \o p : p \in Paths(f.f2)}
      [] f.op \in {"Box", "Diamond", "Mu", "Nu"} ->
            {<<1>> \o p : p \in Paths(f.f)}
      [] OTHER -> {}

\* p is a proper ancestor of q.
Ancestor(p, q) == Len(p) < Len(q) /\ SubSeq(q, 1, Len(p)) = p

\* C12: the iterator yields nodes of f, none twice, the root first, no
\* node after one of its descendants, and when it has nothing left (it
\* returns None) every node of f has been yielded; the formulas yielded are
\* then the sequence subformulas(f).
C12_EachNodeOnce ==
    ret.call \in {"subformulas", "next"} =>
        LET ys == ret.yielded
        IN  /\ \A i \in DOMAIN ys : ys[i] \in Paths(mcf)
            /\ \A i, j \in DOMAIN ys : i # j => ys[i] # ys[j]
            /\ ys # <<>> => ys[1] = <<>>
            /\ \A i, j \in DOMAIN ys : Ancestor(ys[j], ys[i]) => j < i
            /\ ret.children = <<>> =>
                    (ret.call = "next" /\ {ys[i] : i \in DOMAIN ys} = Paths(mcf))
            /\ ret.ended =>
                    /\ ret.item = NoItem
                    /\ [i \in DOMAIN ys |-> At(mcf, ys[i])] = subformulas(mcf)

\* Witness of C12: the iterator ended on a tree that holds a node with two
\* equal operands and a binder.
C12_Witness ==
    /\ ret.call = "next"
    /\ ret.ended
    /\ mcf.op \in {"And", "Or"}
    /\ mcf.f1 = mcf.f2
    /\ mcf.f1.op \in {"Mu", "Nu"}
    /\ Len(ret.yielded) = 5

\* C13: nesting depth >= alternation depth >= dependent alternation depth,
\* and the three are 0 for True, False and a variable.
C13_DepthOrder ==
    ret.call = "depth" =>
        /\ ret.nd >= ret.ad
        /\ ret.ad >= ret.dad
        /\ mcf.op \in {"True", "False", "Var"} =>
                (ret.nd = 0 /\ ret.ad = 0 /\ ret.dad = 0)

\* Witness of C13: a formula where the three measures differ.
C13_Witness ==
    /\ ret.call = "depth"
    /\ ret.nd > ret.ad
    /\ ret.ad > ret.dad
    /\ ret.dad > 0

(***************************************************************************)
(* SpecMain: main() and run() of main.rs from the command line to the exit *)
(* of the process.  A file is "missing" (File::open fails), "unreadable"   *)
(* (read_to_string fails) or its text.  An LTS text is its header, with    *)
(* the initial state, and its lines, each an edge; a formula text is the   *)
(* formula it parses to; Bad is a header, line or text that does not parse.*)
(***************************************************************************)
Missing == [state |-> "missing"]
Unreadable == [state |-> "unreadable"]
Text(t) == [state |-> "text", text |-> t]

Header(initial) == [ok |-> TRUE, initial |-> initial]
EdgeLine(edge) == [ok |-> TRUE, edge |-> edge]
Bad == [ok |-> FALSE]
FormulaText(f) == [ok |-> TRUE, formula |-> f]

EdgeLines(edges) == [i \in DOMAIN edges |-> EdgeLine(edges[i])]

LtsTexts ==
    {[header |-> Header(0), lines |-> EdgeLines(Lines(E))] : E \in EdgeSetsA}
        \cup {[header |-> Bad, lines |-> <<>>],
              [header |-> Header(0), lines |-> <<Bad>>],
              [header |-> Header(0),
               lines |-> <<EdgeLine(<<0, "a", 1>>), Bad>>]}

McfTexts == {FormulaText(f) : f \in Single} \cup {Bad}

LtsFiles == {Text(t) : t \in LtsTexts} \cup {Missing, Unreadable}
McfFiles == {Text(t) : t \in McfTexts} \cup {Missing, Unreadable}

\* Lts::from_str on a text: the header error, the edge error, or Ok(lts).
ParseLtsText(text) ==
    IF ~text.header.ok THEN [ok |-> FALSE, lts |-> LtsDefault]
    ELSE IF \E i \in DOMAIN text.lines : ~text.lines[i].ok
    THEN [ok |-> FALSE, lts |-> LtsDefault]
    ELSE [ok |-> TRUE,
          lts |-> FromStr(text.header.initial,
                          [i \in DOMAIN text.lines |-> text.lines[i].edge])]

InitMain ==
    /\ pc = "start"
    /\ files \in [lts : LtsFiles, mcf : McfFiles]
    /\ lts = LtsDefault
    /\ mcf = True
    /\ env = NoEnv
    /\ naive = NotRun
    /\ improved = NotRun
    /\ ret = NoRet

\* run() returns Err(e) through a ? operator.
RunErr(what) ==
    /\ pc' = "failed"
    /\ ret' = [call |-> "run", error |-> what]
    /\ UNCHANGED <<files, lts, mcf, env, naive, improved>>

RunStep(to) ==
    /\ pc' = to
    /\ UNCHANGED <<files, lts, mcf, env, naive, improved, ret>>

\* File::open(&args.lts) ... ?
OpenLts ==
    /\ pc = "start"
    /\ IF files.lts = Missing THEN RunErr("open lts") ELSE RunStep("lts_open")

\* lts_file.read_to_string(&mut lts) ... ?
ReadLts ==
    /\ pc = "lts_open"
    /\ IF files.lts = Unreadable THEN RunErr("read lts")
       ELSE RunStep("lts_read")

\* File::open(&args.mcf) ... ?
OpenMcf ==
    /\ pc = "lts_read"
    /\ IF files.mcf = Missing THEN RunErr("open mcf") ELSE RunStep("mcf_open")

\* mcf_file.read_to_string(&mut mcf_str) ... ?
ReadMcf ==
    /\ pc = "mcf_open"
    /\ IF files.mcf = Unreadable THEN RunErr("read mcf")
       ELSE RunStep("mcf_read")

\* lts.parse::<Lts>()?
ParseLts ==
    /\ pc = "mcf_read"
    /\ LET r == ParseLtsText(files.lts.text)
       IN  IF r.ok
           THEN /\ lts' = r.lts
                /\ pc' = "lts_parsed"
                /\ UNCHANGED <<files, mcf, env, naive, improved, ret>>
           ELSE RunErr("parse lts")

\* mcf_str.parse::<mc::Formula>(): from_str unwraps the parser's result, so
\* a text that does not parse panics and the process exits with 101.
ParseMcf ==
    /\ pc = "lts_parsed"
    /\ IF ~files.mcf.text.ok
       THEN /\ pc' = "exited"
            /\ ret' = [call |-> "main", error |-> "parse mcf", code |-> 101]
            /\ UNCHANGED <<files, lts, mcf, env, naive, improved>>
       ELSE /\ mcf' = files.mcf.text.formula
            /\ pc' = "parsed_both"
            /\ UNCHANGED <<files, lts, env, naive, improved, ret>>

\* if args.naive { naive::eval } else { improved::eval }, then the output;
\* run() returns Ok(()).
Evaluate(naive_flag) ==
    /\ pc = "parsed_both"
    /\ LET r == IF naive_flag THEN Outcome(NaiveEval(lts, mcf))
                ELSE Outcome(ImprovedEval(lts, mcf))
       IN  /\ IF naive_flag
              THEN naive' = r /\ UNCHANGED improved
              ELSE improved' = r /\ UNCHANGED naive
           /\ pc' = CASE r.status = "ok" -> "returned"
                      [] r.status = "hang" -> "hung"
                      [] OTHER -> "exited"
           /\ ret' = IF r.status = "panic"
                     THEN [call |-> "main", error |-> "panic", code |-> 101]
                     ELSE [call |-> "run", error |-> "none"]
    /\ UNCHANGED <<files, lts, mcf, env>>

\* main(): if let Err(e) = run() { eprint!(..) }, and main returns.
Main ==
    /\ pc \in {"failed", "returned"}
    /\ pc' = "exited"
    /\ ret' = [call |-> "main", error |-> ret.error, code |-> 0]
    /\ UNCHANGED <<files, lts, mcf, env, naive, improved>>

NextMain ==
    \/ OpenLts
    \/ ReadLts
    \/ OpenMcf
    \/ ReadMcf
    \/ ParseLts
    \/ ParseMcf
    \/ \E naive_flag \in BOOLEAN : Evaluate(naive_flag)
    \/ Main

SpecMain == InitMain /\ [][NextMain]_vars

\* C14: when run() ended with an error (a file could not be opened or read,
\* or the LTS or formula text did not parse) the exit code of the process
\* is not 0.
C14_NonZeroExit ==
    (pc = "exited" /\ ret.error # "none") => ret.code # 0

(***************************************************************************)
(* SpecDistinct: run() with each evaluator on closed formulas whose        *)
(* binders bind pairwise distinct names.                                   *)
(***************************************************************************)
Literals(V) == {True, False} \cup {Var(v) : v \in V}
Steps(V) ==
    Literals(V) \cup {Diamond("a", p) : p \in Literals(V)}
        \cup {Box("a", p) : p \in Literals(V)}

\* Y inside X, the body any pair of literals and modalities of X and Y.
TwoLevel == Fix("X", Fix("Y", Bin(Steps({"X", "Y"}), Steps({"X", "Y"}))))

\* X over a pair of a step of X and a binder of Y.
BodyAndBinder ==
    Fix("X", Bin({Var("X"), Diamond("a", Var("X")), Box("b", Var("X"))},
                 Fix("Y", Bin(Bodies2 \cup {Box("b", Var("X"))}, Bodies2))))

\* Two binders side by side, of X and of Y.
Apart ==
    Bin(Single, Fix("Y", {Var("Y"), Diamond("a", Var("Y")),
                          Box("a", Var("Y")), Diamond("b", True)}))

\* The number of binder nodes of f.
RECURSIVE BinderCount(_)
BinderCount(f) ==
    CASE f.op \in {"And", "Or"} -> BinderCount(f.f1) + BinderCount(f.f2)
      [] f.op \in {"Diamond", "Box"} -> BinderCount(f.f)
      [] f.op \in {"Mu", "Nu"} -> 1 + BinderCount(f.f)
      [] OTHER -> 0

\* No name is bound by two binder nodes of f.
DistinctNames(f) == BinderCount(f) = Cardinality(BoundNames(f))

DistinctInputs ==
    {f \in Single \cup TwoLevel \cup BodyAndBinder \cup Apart \cup Deep :
        Free(f) = {} /\ DistinctNames(f)}

InitDistinct ==
    /\ pc = "parsed"
    /\ \E E \in EdgeSets : lts = FromStr(0, Lines(E))
    /\ mcf \in DistinctInputs
    /\ env = NoEnv
    /\ naive = NotRun
    /\ improved = NotRun
    /\ ret = NoRet
    /\ files = NoFiles

SpecDistinct == InitDistinct /\ [][Next]_vars

\* C16: on a closed formula whose binders bind pairwise distinct names the
\* improved evaluator returns, and it returns the set the naive evaluator
\* returns.
C16_DistinctNamesAgree ==
    /\ Started(improved) => Returned(improved)
    /\ (Returned(naive) /\ Returned(improved)) => improved.val = naive.val

\* Witness of C16: three nested binders with an alternation, both
\* evaluators returned a set that is neither empty nor S, the improved one
\* after fewer loop bodies.
C16_Witness ==
    /\ mcf \in Deep
    /\ mcf.op # mcf.f.op
    /\ Returned(naive) /\ Returned(improved)
    /\ improved.bodies < naive.bodies
    /\ naive.val # {} /\ naive.val # LtsStates(lts)

(***************************************************************************)
(* SpecClosed: run() with each evaluator on closed formulas, those that    *)
(* bind a name again inside its own binder included.                       *)
(***************************************************************************)
\* A binder of X inside the body of a binder of X.
Shadowed ==
    Fix("X", Fix("X", Bodies1)) \cup
    Fix("X", Bin({Var("X"), Diamond("a", Var("X"))}, Single)) \cup
    Fix("X", Bin(Single, {Var("X"), Box("a", Var("X"))}))

ClosedInputs ==
    {f \in Formulas \cup Shadowed \cup Deep \cup Apart : Free(f) = {}}

InitClosed ==
    /\ pc = "parsed"
    /\ \E E \in EdgeSetsA : lts = FromStr(0, Lines(E))
    /\ mcf \in ClosedInputs
    /\ env = NoEnv
    /\ naive = NotRun
    /\ improved = NotRun
    /\ ret = NoRet
    /\ files = NoFiles

SpecClosed == InitClosed /\ [][Next]_vars

\* C17: while a closed formula is evaluated, by either evaluator, no read
\* of the environment panics: env[&name] of a Var node finds a binding and
\* env.insert(..).unwrap() of a loop finds a previous one.
C17_ReadsSucceed ==
    /\ naive.status # "panic"
    /\ improved.status # "panic"

\* Witness of C17: both evaluators ran on a formula that binds X again
\* inside a binder of X and reads X in both bodies.
C17_Witness ==
    /\ mcf \in Shadowed
    /\ mcf.f.op \in {"And", "Or"}
    /\ Started(naive) /\ Started(improved)
    /\ naive.bodies > 1 /\ improved.bodies > 1

====
